---- MODULE Spec2Model ----
(***************************************************************************)
(* A model of the single-tape machine of src/src/lib.rs: the Machine       *)
(* (state, tape, head), its operations new / default / execute / halted /  *)
(* peek / finish, and the VecDeque ring buffer that holds the tape.        *)
(* Tape indices are 0-based as in the source; the logical contents of a    *)
(* tape are given as a TLA+ sequence whose element i + 1 is cell i.        *)
(***************************************************************************)
EXTENDS Naturals, Integers, Sequences, FiniteSets, TLC

\* ------------------------------------------------------------------ bounds
\* Longest initial tape handed to Machine::new by an arbitrary caller.
MaxInitLen == 2

\* Longest initial tape of the binary increment runs.
MaxIncLen == 3

\* Number of execute calls made by the caller in the free-running model.
MaxSteps == 3

\* ------------------------------------------------------------- data model
\* Sym is instantiated with bool, as in the tests; bool::default() is false.
Sym == BOOLEAN

Sym_default == FALSE

\* S is instantiated with a two-valued payload type; "Inc" is the unit
\* payload of the tests and S::default().
S == {"Inc", "Alt"}

S_default == "Inc"

\* Option<T>
None == [tag |-> "None"]

Some(v) == [tag |-> "Some", val |-> v]

\* enum Move
Left == "Left"

Right == "Right"

Move == {Left, Right}

\* enum State<S>
Halt == [tag |-> "Halt"]

State(s) == [tag |-> "State", val |-> s]

States == {Halt} \cup {State(s) : s \in S}

\* struct Rule<S, Sym>
Rule == [new_state : {None} \cup {Some(st) : st \in States},
         write     : {None} \cup {Some(w) : w \in Sym},
         head_move : {None} \cup {Some(mv) : mv \in Move}]

\* ------------------------------------------------- VecDeque (ring buffer)
\* A deque is [buf, head, len]: buf maps the physical slots 0 .. cap - 1 to
\* a cell, <<v>> for an initialised slot and << >> for an uninitialised one.
Cap(t) == Cardinality(DOMAIN t.buf)

wrap_add(t, idx, addend) == IF Cap(t) = 0 THEN 0 ELSE (idx + addend) % Cap(t)

wrap_sub(t, idx, subtrahend) == (idx - subtrahend + Cap(t)) % Cap(t)

to_physical_idx(t, idx) == wrap_add(t, t.head, idx)

\* The deque holding the sequence seq in a buffer of cap slots from slot hd.
Ring(cap, hd, seq) ==
    [buf  |-> [p \in 0 .. cap - 1 |->
                 LET i == (p - hd + cap) % cap
                 IN  IF i < Len(seq) THEN <<seq[i + 1]>> ELSE << >>],
     head |-> hd,
     len  |-> Len(seq)]

\* The elements of a deque in index order: element i is the slot
\* to_physical_idx(i), as VecDeque::get / Index / IntoIterator read it.
Elems(t) == [i \in 1 .. t.len |-> t.buf[to_physical_idx(t, i - 1)][1]]

\* VecDeque::len
len(t) == t.len

\* VecDeque::get
get(t, index) ==
    IF index < t.len THEN Some(t.buf[to_physical_idx(t, index)][1]) ELSE None

\* *VecDeque::get_mut(index).unwrap() = value, for index < len
set(t, index, value) ==
    [t EXCEPT !.buf[to_physical_idx(t, index)] = <<value>>]

\* VecDeque::grow: the buffer is full; the capacity at least doubles and
\* the wrapped part of the ring is moved so that the order is kept.
grow(t) ==
    LET old_cap  == Cap(t)
        new_cap  == IF old_cap = 0 THEN 1 ELSE 2 * old_cap
        head_len == old_cap - t.head
        tail_len == t.len - head_len
    IN  IF t.head + t.len <= old_cap
        THEN Ring(new_cap, t.head, Elems(t))
        ELSE IF head_len > tail_len /\ new_cap - old_cap >= tail_len
             THEN Ring(new_cap, t.head, Elems(t))
             ELSE Ring(new_cap, new_cap - head_len, Elems(t))

\* VecDeque::push_front
push_front(t, value) ==
    LET g  == IF t.len = Cap(t) THEN grow(t) ELSE t
        hd == wrap_sub(g, g.head, 1)
    IN  [buf |-> [g.buf EXCEPT ![hd] = <<value>>], head |-> hd, len |-> g.len + 1]

\* VecDeque::push_back
push_back(t, value) ==
    LET g == IF t.len = Cap(t) THEN grow(t) ELSE t
    IN  [g EXCEPT !.buf[to_physical_idx(g, g.len)] = <<value>>, !.len = g.len + 1]

\* The slots lo .. hi - 1 of the buffer, as a slice.
Slice(t, lo, hi) == [i \in 1 .. hi - lo |-> t.buf[lo + i - 1][1]]

\* VecDeque::as_slices
as_slices(t) ==
    IF t.len = 0
    THEN << << >>, << >> >>
    ELSE LET wrapped_start == to_physical_idx(t, 0)
             head_len      == Cap(t) - wrapped_start
         IN  IF head_len >= t.len
             THEN <<Slice(t, wrapped_start, wrapped_start + t.len), << >> >>
             ELSE <<Slice(t, wrapped_start, Cap(t)), Slice(t, 0, t.len - head_len)>>

\* ---------------------------------------------------------------- Machine
\* A machine value is [state, tape, head, panicked]; panicked records that
\* an unwrap() failed while the value was being operated on.

\* new that puts the head on the last cell of the tape.
new_head_at_end(state, tape) ==
    [state |-> State(state), tape |-> tape, head |-> len(tape) - 1, panicked |-> FALSE]

\* Machine::new
new(state, tape) ==
    [state |-> State(state), tape |-> tape, head |-> 0, panicked |-> FALSE]

\* write_tape that writes to the first cell instead of the cell at head.
write_tape_first_cell(self, write) ==
    IF get(self.tape, self.head) = None
    THEN [self EXCEPT !.panicked = TRUE]
    ELSE [self EXCEPT !.tape = set(self.tape, 0, write)]

\* write_tape that writes the buffer slot numbered head, whatever slot the
\* ring starts at.
write_tape_physical_slot(self, write) ==
    IF get(self.tape, self.head) = None
    THEN [self EXCEPT !.panicked = TRUE]
    ELSE [self EXCEPT !.tape.buf[self.head % Cap(self.tape)] = <<write>>]

\* Machine::write_tape
write_tape(self, write) ==
    IF get(self.tape, self.head) = None
    THEN [self EXCEPT !.panicked = TRUE]
    ELSE [self EXCEPT !.tape = set(self.tape, self.head, write)]

\* head_move_left that grows at the wrong end of the tape.
head_move_left_push_back(self) ==
    IF self.head = 0
    THEN [self EXCEPT !.tape = push_back(self.tape, Sym_default)]
    ELSE [self EXCEPT !.head = self.head - 1]

\* head_move_left that tests the wrong boundary: it grows up to index 1.
head_move_left_grows_early(self) ==
    IF self.head <= 1
    THEN [self EXCEPT !.tape = push_front(self.tape, Sym_default)]
    ELSE [self EXCEPT !.head = self.head - 1]

\* Machine::head_move_left
head_move_left(self) ==
    IF self.head = 0
    THEN [self EXCEPT !.tape = push_front(self.tape, Sym_default)]
    ELSE [self EXCEPT !.head = self.head - 1]

\* head_move_right that grows the tape two cells at a time.
head_move_right_grows_by_two(self) ==
    LET grown == IF self.head = len(self.tape) - 1
                 THEN [self EXCEPT !.tape =
                          push_back(push_back(self.tape, Sym_default), Sym_default)]
                 ELSE self
    IN  [grown EXCEPT !.head = grown.head + 1]

\* head_move_right that grows at the right end but leaves the head there.
head_move_right_grow_only(self) ==
    IF self.head = len(self.tape) - 1
    THEN [self EXCEPT !.tape = push_back(self.tape, Sym_default)]
    ELSE [self EXCEPT !.head = self.head + 1]

\* head_move_right that forgets to grow the tape at the right end.
head_move_right_no_growth(self) == [self EXCEPT !.head = self.head + 1]

\* Machine::head_move_right (reached only with a non-empty tape: execute
\* has read tape[head] before)
head_move_right(self) ==
    LET grown == IF self.head = len(self.tape) - 1
                 THEN [self EXCEPT !.tape = push_back(self.tape, Sym_default)]
                 ELSE self
    IN  [grown EXCEPT !.head = grown.head + 1]

\* Machine::halted
halted(self) == self.state = Halt

\* peek that hands out the two slices of the tape in the wrong order.
peek_slices_swapped(self) ==
    [state |-> self.state,
     tape  |-> <<as_slices(self.tape)[2], as_slices(self.tape)[1]>>,
     head  |-> self.head]

\* Machine::peek: the MachinePeek {state, tape, head}
peek(self) ==
    [state |-> self.state, tape |-> as_slices(self.tape), head |-> self.head]

\* Machine::finish
finish(self) == <<self.tape, self.state>>

\* The state update that takes a new payload but ignores Halt.
apply_new_state_never_halts(self, rule) ==
    IF rule.new_state # None /\ rule.new_state.val # Halt
    THEN [self EXCEPT !.state = rule.new_state.val]
    ELSE self

\* Machine::execute, `if let Some(new_state) = new_state`
apply_new_state(self, rule) ==
    IF rule.new_state # None
    THEN [self EXCEPT !.state = rule.new_state.val]
    ELSE self

\* The write skipped when the state update of the same step has halted the
\* machine.
apply_write_unless_halted(self, rule) ==
    IF rule.write # None /\ self.state # Halt
    THEN write_tape(self, rule.write.val)
    ELSE self

\* The write that stores the default symbol when the Rule has no write.
apply_write_or_default(self, rule) ==
    IF rule.write # None
    THEN write_tape(self, rule.write.val)
    ELSE write_tape(self, Sym_default)

\* Machine::execute, `if let Some(write) = write`
apply_write(self, rule) ==
    IF rule.write # None
    THEN write_tape(self, rule.write.val)
    ELSE self

\* Machine::execute, `if let Some(head_move) = head_move`; it is not reached
\* when write_tape has panicked.
apply_head_move(self, rule) ==
    IF self.panicked \/ rule.head_move = None
    THEN self
    ELSE IF rule.head_move.val = Left
         THEN head_move_left(self)
         ELSE head_move_right(self)

\* The Rule applied with the head move before the write.
apply_rule_move_first(self, rule) ==
    apply_write(apply_head_move(apply_new_state(self, rule), rule), rule)

\* Machine::execute from the Executor's Rule on: state update, then write,
\* then head move.
apply_rule(self, rule) ==
    apply_head_move(apply_write(apply_new_state(self, rule), rule), rule)

\* execute that hands the Executor the first cell of the tape instead of
\* the cell under the head.
execute_reads_first_cell(self, E) ==
    IF self.state = Halt
    THEN [after |-> self, rule |-> None, calls |-> << >>]
    ELSE LET symbol == get(self.tape, 0)
         IN  IF symbol = None
             THEN [after |-> [self EXCEPT !.panicked = TRUE],
                   rule  |-> None,
                   calls |-> << >>]
             ELSE [after |-> apply_rule(self, E[<<self.state.val, symbol.val>>]),
                   rule  |-> Some(E[<<self.state.val, symbol.val>>]),
                   calls |-> << <<self.state.val, symbol.val>> >>]

\* execute that reads the default symbol when there is no cell under the
\* head instead of panicking.
execute_unwrap_or_default(self, E) ==
    IF self.state = Halt
    THEN [after |-> self, rule |-> None, calls |-> << >>]
    ELSE LET symbol == IF get(self.tape, self.head) = None
                       THEN Some(Sym_default)
                       ELSE get(self.tape, self.head)
         IN  [after |-> apply_rule(self, E[<<self.state.val, symbol.val>>]),
              rule  |-> Some(E[<<self.state.val, symbol.val>>]),
              calls |-> << <<self.state.val, symbol.val>> >>]

\* execute that lets a Halted machine run on with the default payload.
execute_after_halt(self, E) ==
    LET m      == IF self.state = Halt
                  THEN [self EXCEPT !.state = State(S_default)]
                  ELSE self
        symbol == get(m.tape, m.head)
    IN  IF symbol = None
        THEN [after |-> [m EXCEPT !.panicked = TRUE], rule |-> None, calls |-> << >>]
        ELSE [after |-> apply_rule(m, E[<<m.state.val, symbol.val>>]),
              rule  |-> Some(E[<<m.state.val, symbol.val>>]),
              calls |-> << <<m.state.val, symbol.val>> >>]

\* Machine::execute::<E>. E is the Executor, a function of (payload, symbol).
\* The result is the machine after the call, the Rule obtained and the
\* sequence of argument pairs E::execute was called with.
execute(self, E) ==
    IF self.state = Halt
    THEN [after |-> self, rule |-> None, calls |-> << >>]
    ELSE LET symbol == get(self.tape, self.head)
         IN  IF symbol = None
             THEN [after |-> [self EXCEPT !.panicked = TRUE],
                   rule  |-> None,
                   calls |-> << >>]
             ELSE LET rule == E[<<self.state.val, symbol.val>>]
                  IN  [after |-> apply_rule(self, rule),
                       rule  |-> Some(rule),
                       calls |-> << <<self.state.val, symbol.val>> >>]

\* default that builds the machine over an empty deque.
default_empty_tape == new(S_default, Ring(0, 0, << >>))

\* impl Default for Machine
default == new(S_default, Ring(1, 0, <<Sym_default>>))

\* tests::IncExecutor
IncExecutor ==
    [x \in S \X Sym |->
        IF x[2]
        THEN [new_state |-> None, write |-> Some(FALSE), head_move |-> Some(Right)]
        ELSE [new_state |-> Some(Halt), write |-> Some(TRUE), head_move |-> None]]

\* An Executor that answers every (payload, symbol) with the rule r.
ConstExecutor(r) == [x \in S \X Sym |-> r]

\* ------------------------------------------------------------------ state
VARIABLES
    state,      \* Machine.state
    tape,       \* Machine.tape, a deque
    head,       \* Machine.head
    panicked,   \* an unwrap() has panicked
    steps,      \* number of execute calls made
    initial,    \* the contents of the tape the machine was constructed with
    last,       \* the last operation: its name, the machine before it, the
                \* Rule it obtained, the Executor calls it made, its result
    lgrow,      \* number of cells pushed at the front of the tape so far
    ideal,      \* the tape unbounded in both directions that the machine is
                \* meant to be, run alongside it on the same Rules
    twin        \* a second Machine, constructed with an equal payload and
                \* tape and given the same execute calls

vars == <<state, tape, head, panicked, steps, initial, last, lgrow, ideal, twin>>

Self == [state |-> state, tape |-> tape, head |-> head, panicked |-> panicked]

\* The observable content of a machine value.
View(self) == [state |-> self.state, tape |-> Elems(self.tape), head |-> self.head]

\* The ideal tape: cells is the set of <<position, symbol>> of its
\* non-default cells, a position being any integer; head is a position.
IdealOf(seq) ==
    [cells |-> {<<i - 1, seq[i]>> : i \in {j \in 1 .. Len(seq) : seq[j] # Sym_default}},
     head  |-> 0]

IdealAt(m, pos) ==
    IF \E c \in m.cells : c[1] = pos
    THEN (CHOOSE c \in m.cells : c[1] = pos)[2]
    ELSE Sym_default

IdealWrite(m, write) ==
    [m EXCEPT !.cells = {c \in m.cells : c[1] # m.head}
                        \cup (IF write = Sym_default THEN {} ELSE {<<m.head, write>>})]

IdealMove(m, mv) == [m EXCEPT !.head = IF mv = Left THEN m.head - 1 ELSE m.head + 1]

\* The ideal tape after a step: nothing when no Rule was obtained, else
\* the Rule's write at the head, then its move.
IdealStep(m, rule) ==
    IF rule = None
    THEN m
    ELSE LET w == IF rule.val.write = None THEN m ELSE IdealWrite(m, rule.val.write.val)
         IN  IF rule.val.head_move = None THEN w ELSE IdealMove(w, rule.val.head_move.val)

Become(self) ==
    /\ state' = self.state
    /\ tape' = self.tape
    /\ head' = self.head
    /\ panicked' = self.panicked

\* The deques of at most n symbols a caller can build: the buffer is full
\* (as after Vec::into) and the ring starts at any slot of it.
Deques(n) ==
    {Ring(Len(seq), hd, seq) :
        seq \in UNION {[1 .. k -> Sym] : k \in 1 .. n}, hd \in 0 .. n - 1}
    \cup {Ring(0, 0, << >>)}

InitTapes(n) == {t \in Deques(n) : t.head < Cap(t) \/ Cap(t) = 0}

\* A deque equal to t (VecDeque's == compares the elements in order) that a
\* second caller passes for the same tape: its ring starts one slot later.
EqualDeque(t) == Ring(Cap(t), wrap_add(t, t.head, 1), Elems(t))

Constructed(op, self, other) ==
    /\ state = self.state
    /\ tape = self.tape
    /\ head = self.head
    /\ panicked = self.panicked
    /\ steps = 0
    /\ initial = Elems(self.tape)
    /\ last = [op |-> op, pre |-> View(self), rule |-> None, calls |-> << >>,
               ret |-> None]
    /\ lgrow = 0
    /\ ideal = IdealOf(Elems(self.tape))
    /\ twin = other

\* Machine::new with any payload and any deque, or Machine::default().
Init ==
    \/ \E s \in S, t \in InitTapes(MaxInitLen) :
          Constructed("new", new(s, t), new(s, EqualDeque(t)))
    \/ Constructed("default", default, default)

\* The machine exists and the thread using it has not unwound.
Live == ~panicked /\ last.op # "finish"

\* The step that obtained this Rule from this machine took the push_front
\* branch of head_move_left.
GrowsLeft(self, rule) ==
    /\ rule # None
    /\ rule.val.head_move = Some(Left)
    /\ self.head = 0

\* One call of execute with the Executor E.
ExecuteWith(E) ==
    LET r == execute(Self, E)
    IN  /\ Become(r.after)
        /\ steps' = steps + 1
        /\ last' = [op |-> "execute", pre |-> View(Self), rule |-> r.rule,
                    calls |-> r.calls, ret |-> None]
        /\ lgrow' = IF GrowsLeft(Self, r.rule) THEN lgrow + 1 ELSE lgrow
        /\ ideal' = IdealStep(ideal, r.rule)
        /\ twin' = IF twin.panicked THEN twin ELSE execute(twin, E).after
        /\ UNCHANGED initial

\* The caller calls execute with an Executor of its choice.
Execute ==
    /\ Live
    /\ steps < MaxSteps
    /\ \E r \in Rule : ExecuteWith(ConstExecutor(r))

\* The caller calls peek.
Peek ==
    /\ Live
    /\ last.op # "peek"
    /\ last' = [op |-> "peek", pre |-> View(Self), rule |-> None,
                calls |-> << >>, ret |-> Some(peek(Self))]
    /\ UNCHANGED <<state, tape, head, panicked, steps, initial, lgrow, ideal, twin>>

\* The caller calls finish, which consumes the machine.
Finish ==
    /\ Live
    /\ last' = [op |-> "finish", pre |-> View(Self), rule |-> None,
                calls |-> << >>, ret |-> Some(finish(Self))]
    /\ UNCHANGED <<state, tape, head, panicked, steps, initial, lgrow, ideal, twin>>

Next == Execute \/ Peek \/ Finish

Spec == Init /\ [][Next]_vars

\* --------------------------------------- the binary increment test's runs
\* tests::binary_inc_test, from any non-empty tape of at most MaxIncLen bits:
\* Machine::new(Inc, tape); while !halted() { execute::<IncExecutor>() };
\* finish().
InitInc ==
    \E t \in InitTapes(MaxIncLen) :
        /\ t.len >= 1
        /\ Constructed("new", new("Inc", t), new("Inc", EqualDeque(t)))

IncLoop ==
    /\ Live
    /\ ~halted(Self)
    /\ ExecuteWith(IncExecutor)

IncFinish ==
    /\ halted(Self)
    /\ Finish

NextInc == IncLoop \/ IncFinish

SpecInc == InitInc /\ [][NextInc]_vars

\* The test's thread keeps running: the loop body is executed as long as the
\* loop condition !halted() holds, and finish is called when it ends.
SpecIncFair == SpecInc /\ WF_vars(IncLoop) /\ WF_vars(IncFinish)

\* ------------------------------------------------------------- properties
\* The last operation was an execute call.
Stepped == last.op = "execute"

\* The last operation was an execute call that obtained a Rule from the
\* Executor (the machine was Running and tape[head] could be read).
Ruled == Stepped /\ last.rule # None

\* The machine before the last operation, and the machine now.
Pre == last.pre

Now == View(Self)

\* The machine was constructed with a non-empty tape.
NonEmptyStart == Len(initial) >= 1

\* C1: for a machine constructed with a non-empty tape, after any sequence
\* of execute calls with any Rules, 0 <= head < len(tape), and neither the
\* read nor the write of tape[head] in execute has failed.
HeadWithinTape ==
    NonEmptyStart =>
        /\ 0 <= head
        /\ head < len(tape)
        /\ get(tape, head) # None
        /\ ~panicked

\* A Right move at the last index of a tape that had already grown has been
\* executed, and the head is on the new last cell.
HeadWithinTape_Witness ==
    /\ NonEmptyStart
    /\ Ruled
    /\ last.rule.val.head_move = Some(Right)
    /\ Pre.head = Len(Pre.tape) - 1
    /\ Len(Pre.tape) > Len(initial)
    /\ head = len(tape) - 1

\* C2: an execute call on a Halted machine leaves the tape (contents and
\* length), the head and the state as they were, and does not panic.
HaltedStepIsNoOp ==
    (Stepped /\ Pre.state = Halt) =>
        /\ Now = Pre
        /\ state = Halt
        /\ ~panicked

\* execute has been called, as the third call or later, on a Halted machine
\* whose tape had grown before it halted.
HaltedStepIsNoOp_Witness ==
    /\ Stepped
    /\ Pre.state = Halt
    /\ steps >= 3
    /\ Len(Pre.tape) > Len(initial)

\* C3: a machine starts Running; a step of a Running machine ends Halted
\* exactly when its Rule has new_state = Halt; a Halted machine stays Halted.
HaltedExactlyOnHaltRule ==
    /\ last.op \in {"new", "default"} => state # Halt
    /\ (Stepped /\ Pre.state # Halt) =>
          (state = Halt <=> (Ruled /\ last.rule.val.new_state = Some(Halt)))
    /\ Pre.state = Halt => state = Halt

\* A Running machine has been halted by a Rule with new_state = Halt after
\* a step that changed its payload.
HaltedExactlyOnHaltRule_Witness ==
    /\ Ruled
    /\ Pre.state = State("Alt")
    /\ last.rule.val.new_state = Some(Halt)
    /\ state = Halt
    /\ initial # << >>

\* The last Rule moves the head in direction mv.
Moves(mv) == Ruled /\ last.rule.val.head_move = Some(mv)

\* The last step was a Left move at index 0 / a Right move at the last index.
LeftAtStart == Moves(Left) /\ Pre.head = 0

RightAtEnd == Moves(Right) /\ Pre.head = Len(Pre.tape) - 1

\* The number of cells the last step inserted in front of the old cells.
Shift == IF LeftAtStart THEN 1 ELSE 0

\* C4 as stated: a step with head_move = Left at head = 0 grows the tape by
\* one, puts the default symbol at index 0, keeps every previous cell's
\* value at index + 1 and leaves head at 0.
LeftGrowthKeepsAllCells ==
    LeftAtStart =>
        /\ Len(Now.tape) = Len(Pre.tape) + 1
        /\ Now.tape[1] = Sym_default
        /\ \A i \in 1 .. Len(Pre.tape) : Now.tape[i + 1] = Pre.tape[i]
        /\ head = 0

\* C4, amended: a step with head_move = Left at head = 0 grows the tape by
\* one, puts the default symbol at index 0 and leaves head at 0; every
\* previous cell is found at index + 1, with the value it had, except that
\* the cell that was under the head holds the Rule's write when it has one.
LeftGrowth ==
    LeftAtStart =>
        /\ Len(Now.tape) = Len(Pre.tape) + 1
        /\ Now.tape[1] = Sym_default
        /\ \A i \in 1 .. Len(Pre.tape) :
              Now.tape[i + 1] = IF i = 1 /\ last.rule.val.write # None
                                THEN last.rule.val.write.val
                                ELSE Pre.tape[i]
        /\ head = 0

\* A Left move at index 0 that also wrote a symbol over a different one, on
\* a tape of at least two cells.
LeftGrowth_Witness ==
    /\ LeftAtStart
    /\ Len(Pre.tape) >= 2
    /\ last.rule.val.write = Some(TRUE)
    /\ Pre.tape[1] = FALSE
    /\ Pre.tape[2] = TRUE
    /\ Now.tape = <<FALSE>> \o <<TRUE>> \o Tail(Pre.tape)

\* C5: a step with head_move = Right at the last index grows the tape by
\* one, the new last cell holds the default symbol, and head is the new
\* last index, the old head + 1.
RightGrowth ==
    RightAtEnd =>
        /\ Len(Now.tape) = Len(Pre.tape) + 1
        /\ Now.tape[Len(Now.tape)] = Sym_default
        /\ head = Pre.head + 1
        /\ head = Len(Now.tape) - 1

\* A Right move at the last index of a tape whose cells all hold true.
RightGrowth_Witness ==
    /\ RightAtEnd
    /\ Len(Pre.tape) >= 2
    /\ \A i \in 1 .. Len(Pre.tape) : Pre.tape[i] = TRUE
    /\ last.rule.val.write = None
    /\ Len(Now.tape) = Len(Pre.tape) + 1

\* C6: a Left move at head > 0 decrements head by one, a Right move at
\* head < last index increments it by one, and neither changes len(tape).
NoSpuriousGrowth ==
    /\ (Moves(Left) /\ Pre.head > 0) =>
          head = Pre.head - 1 /\ Len(Now.tape) = Len(Pre.tape)
    /\ (Moves(Right) /\ Pre.head < Len(Pre.tape) - 1) =>
          head = Pre.head + 1 /\ Len(Now.tape) = Len(Pre.tape)

\* A Left move from index 1 of a tape of more than two cells.
NoSpuriousGrowth_Witness ==
    /\ Moves(Left)
    /\ Pre.head = 1
    /\ head = 0
    /\ Len(Now.tape) >= 3

\* C7: in a step of a Running machine an absent new_state keeps the state
\* and payload, an absent write keeps the value of every existing cell, an
\* absent head_move keeps head and len(tape), and a Rule with nothing in it
\* keeps the whole machine.
PartialUpdate ==
    Ruled =>
        /\ last.rule.val.new_state = None => state = Pre.state
        /\ last.rule.val.write = None =>
              \A i \in 1 .. Len(Pre.tape) : Now.tape[i + Shift] = Pre.tape[i]
        /\ last.rule.val.head_move = None =>
              head = Pre.head /\ Len(Now.tape) = Len(Pre.tape)
        /\ last.rule.val = [new_state |-> None, write |-> None, head_move |-> None]
              => Now = Pre

\* A Rule with nothing in it has been applied to a machine in payload Alt
\* whose head is on a true cell away from index 0.
PartialUpdate_Witness ==
    /\ Ruled
    /\ last.rule.val = [new_state |-> None, write |-> None, head_move |-> None]
    /\ Pre.state = State("Alt")
    /\ Pre.head >= 1
    /\ Pre.tape[Pre.head + 1] = TRUE

\* C8: a Rule with both write and head_move writes the symbol to the cell
\* that was under the head when the step began, and then moves: the symbol
\* is at the old cell (index 1 after a Left move at 0, below a default cell;
\* the old index after a Right move at the last index, before a default
\* cell), and no other old cell has changed.
WriteBeforeMove ==
    (Ruled /\ last.rule.val.write # None /\ last.rule.val.head_move # None) =>
        /\ Now.tape[Pre.head + 1 + Shift] = last.rule.val.write.val
        /\ \A i \in 1 .. Len(Pre.tape) :
              i # Pre.head + 1 => Now.tape[i + Shift] = Pre.tape[i]
        /\ LeftAtStart =>
              /\ Now.tape[2] = last.rule.val.write.val
              /\ Now.tape[1] = Sym_default
        /\ RightAtEnd =>
              /\ Now.tape[Pre.head + 1] = last.rule.val.write.val
              /\ Now.tape[Len(Now.tape)] = Sym_default
              /\ Len(Now.tape) = Pre.head + 2

\* A Rule that writes true and moves Right has been applied at the last
\* index, on a false cell, by a step that also changed the payload.
WriteBeforeMove_Witness ==
    /\ RightAtEnd
    /\ last.rule.val.write = Some(TRUE)
    /\ last.rule.val.new_state = Some(State("Alt"))
    /\ Pre.state = State("Inc")
    /\ Pre.tape[Pre.head + 1] = FALSE
    /\ Now.tape[Pre.head + 1] = TRUE
    /\ state = State("Alt")

\* C9: in every reachable state the two slices of peek(), concatenated in
\* order, are the tape finish() would return, peek().head is the head and
\* peek().state the state finish() would return; a peek call returns that
\* snapshot and leaves the machine as it was.
PeekFinishConsistent ==
    LET p == peek(Self)
        f == finish(Self)
    IN  /\ p.tape[1] \o p.tape[2] = Elems(f[1])
        /\ p.head = head
        /\ p.state = f[2]
        /\ last.op = "peek" =>
              /\ last.ret = Some(p)
              /\ Now = Pre

\* peek has been called on a Halted machine whose tape has grown and wraps
\* around the end of its buffer, so that both slices are non-empty.
PeekFinishConsistent_Witness ==
    /\ last.op = "peek"
    /\ last.ret.val.tape[1] # << >>
    /\ last.ret.val.tape[2] # << >>
    /\ Len(Now.tape) > Len(initial)
    /\ state = Halt
    /\ head >= 1

\* The number of leading true cells of a tape.
Carry(seq) ==
    CHOOSE k \in 0 .. Len(seq) :
        /\ \A i \in 1 .. k : seq[i]
        /\ k < Len(seq) => ~seq[k + 1]

\* The tape with its leading run of true cells set to false and the next
\* cell, which is appended when there is none, set to true.
Incremented(seq) ==
    [i \in 1 .. (IF Carry(seq) = Len(seq) THEN Len(seq) + 1 ELSE Len(seq)) |->
        IF i <= Carry(seq) THEN FALSE ELSE IF i = Carry(seq) + 1 THEN TRUE ELSE seq[i]]

\* C10: the increment run from a non-empty tape of bits never panics, and
\* when the loop has ended the state is Halt and the tape, which finish()
\* returns, is the initial tape with its leading true cells set to false and
\* the first false cell set to true, one true cell longer when every initial
\* cell was true: [false, true] gives [true, true] and [true, true] gives
\* [false, false, true].
BinaryIncrement ==
    /\ ~panicked
    /\ halted(Self) =>
          /\ Now.tape = Incremented(initial)
          /\ (\A i \in 1 .. Len(initial) : initial[i]) =>
                /\ Len(Now.tape) = Len(initial) + 1
                /\ Now.tape[Len(Now.tape)] = TRUE
          /\ initial = <<FALSE, TRUE>> => Now.tape = <<TRUE, TRUE>>
          /\ initial = <<TRUE, TRUE>> => Now.tape = <<FALSE, FALSE, TRUE>>
    /\ last.op = "finish" =>
          /\ last.ret.val[2] = Halt
          /\ Elems(last.ret.val[1]) = Incremented(initial)

\* The run from [true, true] has finished with [false, false, true].
BinaryIncrement_Witness ==
    /\ last.op = "finish"
    /\ initial = <<TRUE, TRUE>>
    /\ Elems(last.ret.val[1]) = <<FALSE, FALSE, TRUE>>
    /\ last.ret.val[2] = Halt
    /\ steps = 3

\* C11: from every non-empty tape of bits the loop of the increment run,
\* executed fairly, reaches Halt: the machine does not run forever.
IncTerminates == <>(halted(Self) /\ ~panicked)

\* The run from a tape whose cells were all true has halted on the cell it
\* appended on the right, after one step per initial cell and one more.
IncTerminates_Witness ==
    /\ halted(Self)
    /\ Stepped
    /\ \A i \in 1 .. Len(initial) : initial[i]
    /\ Len(initial) >= 2
    /\ steps = Len(initial) + 1
    /\ head = Len(initial)
    /\ Len(Now.tape) = Len(initial) + 1

\* The machine is as its constructor returned it.
Fresh == last.op \in {"new", "default"}

\* C12: a freshly constructed machine is Running with a payload, halted()
\* is false and head = 0; after new the tape is the one given, and after
\* default the payload is S::default() and the tape is one cell holding
\* Sym::default().
FreshMachine ==
    Fresh =>
        /\ \E s \in S : state = State(s)
        /\ ~halted(Self)
        /\ head = 0
        /\ Now.tape = initial
        /\ ~panicked
        /\ last.op = "default" =>
              /\ state = State(S_default)
              /\ len(tape) = 1
              /\ Now.tape = <<Sym_default>>

\* A machine has just been built by default().
FreshMachine_Witness ==
    /\ last.op = "default"
    /\ steps = 0
    /\ len(tape) = 1
    /\ get(tape, head) = Some(Sym_default)

\* C13 as stated: right after construction and after any sequence of
\* execute calls, len(tape) >= 1.
TapeNeverEmpty == len(tape) >= 1

\* C13, amended: for a machine built by default(), or by new from a
\* non-empty tape, len(tape) >= 1 right after construction and after any
\* sequence of execute calls.
TapeNonEmptyFromNonEmpty ==
    /\ last.op = "default" => len(tape) >= 1
    /\ NonEmptyStart => len(tape) >= 1 /\ Len(Now.tape) >= 1

\* All execute calls of the budget have been made on a machine built from
\* a one-cell tape, the last of them on a Halted machine.
TapeNonEmptyFromNonEmpty_Witness ==
    /\ Len(initial) = 1
    /\ steps = MaxSteps
    /\ Stepped
    /\ Pre.state = Halt
    /\ len(tape) >= 1

\* The head a move leaves: one to the left but not below 0, one to the
\* right, or where it was.
MovedHead(h, head_move) ==
    IF head_move = None
    THEN h
    ELSE IF head_move.val = Left
         THEN (IF h = 0 THEN 0 ELSE h - 1)
         ELSE h + 1

\* the old cell i, 1-based, after the last Rule's write
Written(i) ==
    IF i = Pre.head + 1 /\ last.rule.val.write # None
    THEN last.rule.val.write.val
    ELSE Pre.tape[i]

\* C14: a step whose Rule has new_state = Halt ends Halted and has applied
\* the Rule's write to the cell that was under the head and its head move,
\* with the growth a move at a boundary brings; it is not a no-op, while a
\* step begun in Halt is one.
HaltingStepAppliesRule ==
    /\ (Ruled /\ last.rule.val.new_state = Some(Halt)) =>
          /\ state = Halt
          /\ Now # Pre
          /\ \A i \in 1 .. Len(Pre.tape) : Now.tape[i + Shift] = Written(i)
          /\ head = MovedHead(Pre.head, last.rule.val.head_move)
          /\ Len(Now.tape) =
                Len(Pre.tape) + (IF LeftAtStart \/ RightAtEnd THEN 1 ELSE 0)
          /\ LeftAtStart => Now.tape[1] = Sym_default
          /\ RightAtEnd => Now.tape[Len(Now.tape)] = Sym_default
    /\ (Stepped /\ Pre.state = Halt) => Now = Pre /\ ~Ruled

\* A Rule that halts, writes true over false and moves Right at the last
\* index has been applied.
HaltingStepAppliesRule_Witness ==
    /\ RightAtEnd
    /\ last.rule.val.new_state = Some(Halt)
    /\ last.rule.val.write = Some(TRUE)
    /\ Pre.tape[Pre.head + 1] = FALSE
    /\ state = Halt
    /\ Now.tape[Pre.head + 1] = TRUE
    /\ head = Pre.head + 1

StepTouchesOneCell ==
    /\ Ruled =>
          /\ \A i \in 1 .. Len(Pre.tape) :
                (i # Pre.head + 1 \/ last.rule.val.write = None)
                    => Now.tape[i + Shift] = Pre.tape[i]
          /\ \A i \in 1 .. Len(Pre.tape) : Now.tape[i + Shift] = Written(i)
          /\ Len(Now.tape) \in {Len(Pre.tape), Len(Pre.tape) + 1}
          /\ Len(Now.tape) = Len(Pre.tape) + 1 =>
                \/ LeftAtStart /\ Now.tape[1] = Sym_default
                \/ RightAtEnd /\ Now.tape[Len(Now.tape)] = Sym_default
    /\ (Stepped /\ ~Ruled) => Now.tape = Pre.tape

\* A step has written true over false under a head between two true cells
\* and moved Left without growth.
StepTouchesOneCell_Witness ==
    /\ Moves(Left)
    /\ Pre.head = 1
    /\ Len(Pre.tape) >= 3
    /\ Pre.tape[1] = TRUE /\ Pre.tape[2] = FALSE /\ Pre.tape[3] = TRUE
    /\ last.rule.val.write = Some(TRUE)
    /\ Now.tape[2] = TRUE
    /\ Len(Now.tape) = Len(Pre.tape)

\* C18: no operation shortens the tape, an execute call lengthens it by 0
\* or 1, and after n execute calls len(tape) is at most the initial length
\* plus n.
TapeNeverShrinks ==
    /\ Len(Now.tape) >= Len(Pre.tape)
    /\ Len(Now.tape) <= Len(Pre.tape) + 1
    /\ ~Stepped => Len(Now.tape) = Len(Pre.tape)
    /\ len(tape) >= Len(initial)
    /\ len(tape) <= Len(initial) + steps

\* Every execute call of the budget has grown the tape, at both ends.
TapeNeverShrinks_Witness ==
    /\ steps = MaxSteps
    /\ len(tape) = Len(initial) + steps
    /\ RightAtEnd
    /\ \E k \in 1 .. MaxSteps - 1 :
          SubSeq(Now.tape, k + 1, k + Len(initial)) = initial

\* C19: new accepts an empty tape without failure (Running, head 0, len
\* 0); the first execute call on that machine panics on reading tape[head],
\* with the Executor not called and state, tape and head as they were, and
\* the machine never completes a step or becomes Halted.
EmptyTapeFaults ==
    initial = << >> =>
        /\ steps = 0 => ~panicked /\ state # Halt /\ head = 0 /\ len(tape) = 0
        /\ steps >= 1 =>
              /\ panicked
              /\ steps = 1
              /\ last.op = "execute"
              /\ ~Ruled
              /\ last.calls = << >>
              /\ Now = Pre
        /\ state # Halt
        /\ head = 0
        /\ len(tape) = 0

\* The first execute call on a machine built from an empty tape has
\* panicked.
EmptyTapeFaults_Witness ==
    /\ initial = << >>
    /\ panicked
    /\ steps = 1
    /\ state = State("Alt")

\* The position on the ideal tape of the physical index i.
Logical(i) == i - lgrow

\* C16: the machine refines the tape unbounded in both directions: with the
\* physical index i at position i - (number of leftward growths), every
\* physical cell holds the ideal tape's symbol at its position, the ideal
\* tape is blank outside the physical tape, the head is at the ideal head,
\* and a Left / Right move changes the head's position by exactly -1 / +1.
RefinesIdealTape ==
    NonEmptyStart =>
        /\ \A i \in 0 .. len(tape) - 1 :
              get(tape, i) = Some(IdealAt(ideal, Logical(i)))
        /\ \A c \in ideal.cells : Logical(0) <= c[1] /\ c[1] <= Logical(len(tape) - 1)
        /\ Logical(head) = ideal.head
        /\ Moves(Left) => Logical(head) = (Pre.head - (lgrow - Shift)) - 1
        /\ Moves(Right) => Logical(head) = (Pre.head - (lgrow - Shift)) + 1
        /\ (Stepped /\ ~Moves(Left) /\ ~Moves(Right)) =>
              Logical(head) = Pre.head - lgrow

\* The tape has grown at the front twice and the head has then come back,
\* by a Right move, to a cell right of the start, which holds true.
RefinesIdealTape_Witness ==
    /\ NonEmptyStart
    /\ lgrow >= 2
    /\ Moves(Right)
    /\ Logical(head) = -1
    /\ \E c \in ideal.cells : c[1] >= 0
    /\ initial[1] = TRUE
    /\ Now.tape[lgrow + 1] = TRUE

\* C20: determinism of the run.  Two Machines constructed with the same
\* payload and with equal tapes, and given the same execute calls with the
\* same Executor, have the same state, the same tape contents and the same
\* head after every step, and fault together; tapes are compared as
\* VecDeque's == compares them, element by element in index order, so where
\* a tape's ring starts and how much room it has play no part.
Deterministic ==
    /\ twin.state = state
    /\ Elems(twin.tape) = Elems(tape)
    /\ twin.head = head
    /\ twin.panicked = panicked

\* Two machines whose buffers differ agree after two writing, moving steps
\* that grew the tape.
Deterministic_Witness ==
    /\ steps >= 2
    /\ Stepped /\ Ruled
    /\ last.rule.val.write # None
    /\ twin.tape # tape
    /\ len(tape) > Len(initial)
    /\ Len(initial) >= 2
    /\ Elems(twin.tape) = Elems(tape)
    /\ twin.head = head

====
